---- MODULE Spec2Model ----
(***************************************************************************)
(* The recipe API of app/recipe: the Recipe, Tag and Ingredient tables,    *)
(* the nested tag/ingredient reconciliation of RecipeSerializer, and the   *)
(* querysets of the viewsets.  Spec: one action per request handler, a     *)
(* handler running to completion in one step.  SpecConcurrent: recipe      *)
(* create and update requests in flight together, statement by statement.  *)
(***************************************************************************)
EXTENDS Integers, Sequences, FiniteSets, TLC

VARIABLES
    recipes,             \* Recipe table: id -> row
    tags,                \* Tag table: id -> [user, name]
    ingredients,         \* Ingredient table: id -> [user, name]
    recipe_tags,         \* Recipe.tags through table: set of <<recipe id, tag id>>
    recipe_ingredients,  \* Recipe.ingredients through table
    seqs,                \* last id handed out by each table's id sequence
    last,                \* the request the run is observed at: the store before it,
                         \* the request and its response (op "none": not yet)
    inflight,            \* worker -> the request it is handling, statement by statement
    raced                \* <<kind, id>> of the rows inserted after a look-up that another
                         \* worker's insert of the same (user, name) had overtaken

vars == <<recipes, tags, ingredients, recipe_tags, recipe_ingredients, seqs, last,
          inflight, raced>>

----------------------------------------------------------------------------
(* Bounds of the model.                                                    *)

\* Rows the three tables hand ids to in one run, and the ids of each table.
MaxRows == 4
MaxWorkers == 2
RecipeIds == {1, 2}
TagIds == {1, 2}
IngredientIds == {1, 2}

Users == {"user", "other"}
TagNames == {"Indian", "Italian"}
IngredientNames == {"Rice"}

Kinds == {"tags", "ingredients"}
NamesOf(k) == IF k = "tags" THEN TagNames ELSE IngredientNames
AttrIds(k) == IF k = "tags" THEN TagIds ELSE IngredientIds
through(k) == IF k = "tags" THEN "recipe_tags" ELSE "recipe_ingredients"

\* The lists of at most two names.
Lists(S) == {<<>>} \cup {<<a>> : a \in S} \cup {<<a, b>> : a, b \in S}

----------------------------------------------------------------------------
(* Python and ORM primitives.                                              *)

EmptyDict == [k \in {} |-> 0]
None == <<>>
Some(v) == <<v>>
Value(o) == o[1]

\* dict.pop(key, default): the value under key (wrapped), else the default.
pop(d, key, default) == IF key \in DOMAIN d THEN Some(d[key]) ELSE default
without(d, keys) == [k \in DOMAIN d \ keys |-> d[k]]
only(d, keys) == [k \in DOMAIN d \cap keys |-> d[k]]

Min(S) == CHOOSE x \in S : \A y \in S : x <= y
Max(S) == CHOOSE x \in S : \A y \in S : x >= y

\* The rows in ascending id, as an unordered queryset of the table comes.
RECURSIVE Ascending(_)
Ascending(S) == IF S = {} THEN <<>> ELSE <<Min(S)>> \o Ascending(S \ {Min(S)})

\* order_by('-id').distinct()
RECURSIVE Descending(_)
Descending(S) == IF S = {} THEN <<>> ELSE <<Max(S)>> \o Descending(S \ {Max(S)})

TheDB ==
    [recipes |-> recipes, tags |-> tags, ingredients |-> ingredients,
     recipe_tags |-> recipe_tags, recipe_ingredients |-> recipe_ingredients,
     seqs |-> seqs]

\* Whether an unhandled exception rolls the request's writes back.
ATOMIC_REQUESTS == FALSE

\* Whether the Tag and Ingredient tables hold (user, name) unique.
UNIQUE_USER_NAME == FALSE

\* IntegrityError of a write that would leave row pk of table k a second (user, name).
integrity_error(db, k, user, name, pk) ==
    /\ UNIQUE_USER_NAME
    /\ \E i \in DOMAIN db[k] \ {pk} : db[k][i].user = user /\ db[k][i].name = name

\* The Recipe row a bare Recipe.objects.create(user, title, time_minutes, price) stores.
RecipeDefaults == [link |-> "", description |-> ""]

\* get_or_create(**tag) without the user: the lookup is by name alone.
get_or_create_by_name(db, k, u, n) ==
    LET m == {i \in DOMAIN db[k] : db[k][i].name = n}
        i == db.seqs[k] + 1
    IN  CASE Cardinality(m) = 1 ->
                [raised |-> FALSE, obj |-> CHOOSE x \in m : TRUE, db |-> db]
          [] m = {} ->
                [raised |-> FALSE, obj |-> i,
                 db |-> [db EXCEPT ![k] = @ @@ (i :> [user |-> u, name |-> n]),
                                   !.seqs[k] = i]]
          [] OTHER ->
                [raised |-> TRUE, obj |-> 0, db |-> db]

\* Manager.get_or_create(user=u, name=n) on table k.
get_or_create(db, k, u, n) ==
    LET m == {i \in DOMAIN db[k] : db[k][i].user = u /\ db[k][i].name = n}
        i == db.seqs[k] + 1
    IN  CASE Cardinality(m) = 1 ->
                [raised |-> FALSE, obj |-> CHOOSE x \in m : TRUE, db |-> db]
          [] m = {} ->
                [raised |-> FALSE, obj |-> i,
                 db |-> [db EXCEPT ![k] = @ @@ (i :> [user |-> u, name |-> n]),
                                   !.seqs[k] = i]]
          [] OTHER ->      \* MultipleObjectsReturned
                [raised |-> TRUE, obj |-> 0, db |-> db]

\* An update that attaches without clearing first.
clear_nothing(db, k, rid) == db

\* A clear that deletes the detached rows with the association.
clear_and_delete(db, k, rid) ==
    LET gone == {p[2] : p \in {q \in db[through(k)] : q[1] = rid}}
    IN  [db EXCEPT ![through(k)] = {p \in @ : p[2] \notin gone},
                   ![k] = [i \in DOMAIN @ \ gone |-> @[i]]]

\* recipe.<k>.add(obj) and recipe.<k>.clear()
add(db, k, rid, obj) == [db EXCEPT ![through(k)] = @ \cup {<<rid, obj>>}]
clear(db, k, rid) == [db EXCEPT ![through(k)] = {p \in @ : p[1] # rid}]

----------------------------------------------------------------------------
(* recipe/serializers.py                                                   *)

RecipeSerializerFields == {"title", "time_minutes", "price", "link", "tags", "ingredients"}
RecipeDetailSerializerFields == RecipeSerializerFields \cup {"description"}

\* A serializer that declares user among its writable fields.
validated_with_user(data) == only(data, RecipeDetailSerializerFields \cup {"user"})

\* The writable fields that are columns of the Recipe row.
ScalarFields == RecipeDetailSerializerFields \ {"tags", "ingredients"}

\* A validation that fills the fields the payload leaves out with their defaults.
validated_with_defaults(data) == only(data, RecipeDetailSerializerFields) @@ RecipeDefaults

\* What the serializer's validation hands to create/update: the declared fields only.
validated(data) == only(data, RecipeDetailSerializerFields)

RECURSIVE get_or_create_each(_, _, _, _, _)
get_or_create_each(db, k, auth_user, names, rid) ==
    IF names = <<>> THEN [raised |-> FALSE, db |-> db]
    ELSE LET g == get_or_create(db, k, auth_user, Head(names))
         IN  IF g.raised THEN [raised |-> TRUE, db |-> g.db]
             ELSE get_or_create_each(add(g.db, k, rid, g.obj), k, auth_user,
                                     Tail(names), rid)

_get_or_create_tags(db, auth_user, names, rid) ==
    get_or_create_each(db, "tags", auth_user, names, rid)

_get_or_create_ingredients(db, auth_user, names, rid) ==
    get_or_create_each(db, "ingredients", auth_user, names, rid)

\* RecipeSerializer.create(validated_data), validated_data carrying user.
create(db, auth_user, validated_data) ==
    LET tgs == pop(validated_data, "tags", Some(<<>>))
        ings == pop(validated_data, "ingredients", Some(<<>>))
        rest == without(validated_data, {"tags", "ingredients"})
        rid == db.seqs.recipes + 1
        db1 == [db EXCEPT !.recipes = @ @@ (rid :> (rest @@ RecipeDefaults)),
                          !.seqs.recipes = rid]
        t == _get_or_create_tags(db1, auth_user, Value(tgs), rid)
        i == _get_or_create_ingredients(t.db, auth_user, Value(ings), rid)
    IN  IF t.raised THEN [raised |-> TRUE, db |-> t.db, id |-> rid]
        ELSE [raised |-> i.raised, db |-> i.db, id |-> rid]

\* RecipeSerializer.update(instance, validated_data)
update(db, auth_user, rid, validated_data) ==
    LET tgs == pop(validated_data, "tags", Some(<<>>))
        ings == pop(validated_data, "ingredients", Some(<<>>))
        rest == without(validated_data, {"tags", "ingredients"})
        i == IF ings # None
             THEN _get_or_create_ingredients(clear(db, "ingredients", rid),
                                             auth_user, Value(ings), rid)
             ELSE [raised |-> FALSE, db |-> db]
        t == IF tgs # None
             THEN _get_or_create_tags(clear(i.db, "tags", rid),
                                      auth_user, Value(tgs), rid)
             ELSE [raised |-> FALSE, db |-> i.db]
        saved == [t.db EXCEPT !.recipes[rid] = rest @@ @]
    IN  IF i.raised THEN [raised |-> TRUE, db |-> i.db]
        ELSE IF t.raised THEN [raised |-> TRUE, db |-> t.db]
        ELSE [raised |-> FALSE, db |-> saved]

----------------------------------------------------------------------------
(* recipe/views.py                                                         *)

\* A raw query parameter is held as the pieces str.split(',') cuts it into;
\* an absent parameter is <<>> and the empty string is <<"">>.
Absent == <<>>
Truthy(q) == q # Absent /\ q # <<"">>

\* int(param): the integer a decimal token denotes, None for a ValueError.
int(param) ==
    IF \E n \in 0..9 : ToString(n) = param
    THEN Some(CHOOSE n \in 0..9 : ToString(n) = param)
    ELSE None

_params_to_ints(query_params) ==
    IF \E j \in DOMAIN query_params : int(query_params[j]) = None
    THEN [raised |-> TRUE, ints |-> <<>>]
    ELSE [raised |-> FALSE,
          ints |-> [j \in DOMAIN query_params |-> Value(int(query_params[j]))]]

\* The inclusive filter: every recipe that has one of the ids.
any_of_ids(db, k, base_qs, ids, qs) ==
    qs \cup {r \in base_qs : \E j \in DOMAIN ids : <<r, ids[j]>> \in db[through(k)]}

\* base_qs.filter(<k>__id=id).order_by('id').first(), then qs |= base_qs.filter(id=recipe.id)
RECURSIVE one_per_id(_, _, _, _, _)
one_per_id(db, k, base_qs, ids, qs) ==
    IF ids = <<>> THEN qs
    ELSE LET found == {r \in base_qs : <<r, Head(ids)>> \in db[through(k)]}
         IN  one_per_id(db, k, base_qs, Tail(ids),
                        IF found # {} THEN qs \cup {Min(found)} ELSE qs)

\* A queryset that is not narrowed to the requester.
filter_nobody(db, table, user) == DOMAIN db[table]

\* self.queryset.filter(user=self.request.user)
filter_user(db, table, user) == {i \in DOMAIN db[table] : db[table][i].user = user}

\* A get_queryset whose ingredient narrowing starts from all of the user's recipes.
get_queryset_from_all(db, user, tags_param, ingredients_param) ==
    LET base_qs == filter_user(db, "recipes", user)
        tag_ids == _params_to_ints(tags_param)
        ingredient_ids == _params_to_ints(ingredients_param)
        by_ingredients == IF Truthy(ingredients_param)
                          THEN one_per_id(db, "ingredients", base_qs, ingredient_ids.ints, {})
                          ELSE IF Truthy(tags_param)
                          THEN one_per_id(db, "tags", base_qs, tag_ids.ints, {})
                          ELSE base_qs
    IN  IF Truthy(tags_param) /\ tag_ids.raised THEN [raised |-> TRUE, qs |-> <<>>]
        ELSE IF Truthy(ingredients_param) /\ ingredient_ids.raised
             THEN [raised |-> TRUE, qs |-> <<>>]
        ELSE [raised |-> FALSE, qs |-> Descending(by_ingredients)]

\* RecipeViewSet.get_queryset
get_queryset(db, user, tags_param, ingredients_param) ==
    LET base_qs == filter_user(db, "recipes", user)
        tag_ids == _params_to_ints(tags_param)
        by_tags == IF Truthy(tags_param)
                   THEN one_per_id(db, "tags", base_qs, tag_ids.ints, {})
                   ELSE base_qs
        ingredient_ids == _params_to_ints(ingredients_param)
        by_ingredients == IF Truthy(ingredients_param)
                          THEN one_per_id(db, "ingredients", by_tags, ingredient_ids.ints, {})
                          ELSE by_tags
    IN  IF Truthy(tags_param) /\ tag_ids.raised THEN [raised |-> TRUE, qs |-> <<>>]
        ELSE IF Truthy(ingredients_param) /\ ingredient_ids.raised
             THEN [raised |-> TRUE, qs |-> <<>>]
        ELSE [raised |-> FALSE, qs |-> Descending(by_ingredients)]

\* Alphabetical position of a name, for order_by('-name').
NameRank(n) ==
    CASE n = "Fish" -> 1 [] n = "Indian" -> 2 [] n = "Italian" -> 3 [] n = "Rice" -> 4

Range(s) == {s[j] : j \in DOMAIN s}

\* BaseRecipeAttrViewSet.get_queryset: the orders the store may return the rows in.
attr_get_queryset(db, k, user, assigned_only) ==
    LET own == filter_user(db, k, user)
    IN  {s \in [1..Cardinality(own) -> own] :
            /\ Range(s) = own
            /\ \A a, b \in DOMAIN s :
                   a < b => NameRank(db[k][s[a]].name) >= NameRank(db[k][s[b]].name)}

Response(op, user, pk, data, query, status, result) ==
    [op |-> op, user |-> user, pk |-> pk, data |-> data, query |-> query,
     status |-> status, result |-> result, before |-> TheDB]

\* The run is observed at one request: a handler answers unrecorded, or its
\* request and response are recorded and the run ends there.
Unobserved == last.op = "none"
Reply(response) == last' \in {last, response} /\ UNCHANGED <<inflight, raced>>

\* Bound on the runs: a request that sets a scalar field of a recipe is the
\* recorded one, so the recipes of the requests before it hold the fields
\* they were created with.
ScalarsLast(data) == DOMAIN data \cap ScalarFields # {} => last'.op # "none"

NoQuery == [tags |-> Absent, ingredients |-> Absent, assigned_only |-> Absent]

Store(db) ==
    /\ recipes' = db.recipes
    /\ tags' = db.tags
    /\ ingredients' = db.ingredients
    /\ recipe_tags' = db.recipe_tags
    /\ recipe_ingredients' = db.recipe_ingredients
    /\ seqs' = db.seqs

\* What a request that ended in an unhandled exception leaves in the store.
AfterRaise(db0, db1) == IF ATOMIC_REQUESTS THEN db0 ELSE db1

WithinBounds(db) ==
    /\ db.seqs.recipes <= Cardinality(RecipeIds)
    /\ db.seqs.tags <= Cardinality(TagIds)
    /\ db.seqs.ingredients <= Cardinality(IngredientIds)
    /\ db.seqs.recipes + db.seqs.tags + db.seqs.ingredients <= MaxRows

\* POST /recipes/ : CreateModelMixin.create, perform_create, RecipeSerializer.create
RecipeCreate(user, data) ==
    LET r == create(TheDB, user, validated(data) @@ [user |-> user])
    IN  /\ WithinBounds(r.db)
        /\ IF r.raised
           THEN /\ Store(AfterRaise(TheDB, r.db))
                /\ Reply(Response("recipe-create", user, 0, data, NoQuery, 500, <<>>))
           ELSE /\ Store(r.db)
                /\ Reply(Response("recipe-create", user, 0, data, NoQuery, 201, <<r.id>>))

\* GenericAPIView.get_object over RecipeViewSet.get_queryset (no query parameters)
get_object(db, user, pk) ==
    pk \in Range(get_queryset(db, user, Absent, Absent).qs)

\* PATCH/PUT /recipes/<pk>/ : UpdateModelMixin.update, RecipeSerializer.update
RecipeUpdate(user, pk, data) ==
    IF ~get_object(TheDB, user, pk)
    THEN /\ UNCHANGED <<recipes, tags, ingredients, recipe_tags, recipe_ingredients, seqs>>
         /\ Reply(Response("recipe-update", user, pk, data, NoQuery, 404, <<>>))
    ELSE LET r == update(TheDB, user, pk, validated(data))
         IN  /\ WithinBounds(r.db)
             /\ IF r.raised
                THEN /\ Store(AfterRaise(TheDB, r.db))
                     /\ Reply(Response("recipe-update", user, pk, data, NoQuery, 500, <<>>))
                ELSE /\ Store(r.db)
                     /\ Reply(Response("recipe-update", user, pk, data, NoQuery, 200, <<pk>>))

\* DELETE /recipes/<pk>/ : DestroyModelMixin.destroy
RecipeDestroy(user, pk) ==
    IF ~get_object(TheDB, user, pk)
    THEN /\ UNCHANGED <<recipes, tags, ingredients, recipe_tags, recipe_ingredients, seqs>>
         /\ Reply(Response("recipe-destroy", user, pk, EmptyDict, NoQuery, 404, <<>>))
    ELSE /\ recipes' = [r \in DOMAIN recipes \ {pk} |-> recipes[r]]
         /\ recipe_tags' = {p \in recipe_tags : p[1] # pk}
         /\ recipe_ingredients' = {p \in recipe_ingredients : p[1] # pk}
         /\ UNCHANGED <<tags, ingredients, seqs>>
         /\ Reply(Response("recipe-destroy", user, pk, EmptyDict, NoQuery, 204, <<>>))

\* GET /recipes/<pk>/ : RetrieveModelMixin.retrieve
RecipeRetrieve(user, pk) ==
    /\ UNCHANGED <<recipes, tags, ingredients, recipe_tags, recipe_ingredients, seqs>>
    /\ IF ~get_object(TheDB, user, pk)
       THEN Reply(Response("recipe-retrieve", user, pk, EmptyDict, NoQuery, 404, <<>>))
       ELSE Reply(Response("recipe-retrieve", user, pk, EmptyDict, NoQuery, 200, <<pk>>))

\* GET /recipes/?tags=..&ingredients=.. : ListModelMixin.list over get_queryset
RecipeList(user, tags_param, ingredients_param) ==
    LET r == get_queryset(TheDB, user, tags_param, ingredients_param)
        q == [tags |-> tags_param, ingredients |-> ingredients_param,
              assigned_only |-> Absent]
    IN  /\ UNCHANGED <<recipes, tags, ingredients, recipe_tags, recipe_ingredients, seqs>>
        /\ Reply(Response("recipe-list", user, 0, EmptyDict, q,
                            IF r.raised THEN 500 ELSE 200, r.qs))

OpName(k, verb) == (IF k = "tags" THEN "tag-" ELSE "ingredient-") \o verb

\* POST /tags/, /ingredients/ : BaseRecipeAttrViewSet.perform_create
AttrCreate(k, user, name) ==
    LET i == seqs[k] + 1
        db == [TheDB EXCEPT ![k] = @ @@ (i :> [user |-> user, name |-> name]),
                            !.seqs[k] = i]
    IN  IF integrity_error(TheDB, k, user, name, 0)
        THEN /\ UNCHANGED <<recipes, tags, ingredients, recipe_tags, recipe_ingredients, seqs>>
             /\ Reply(Response(OpName(k, "create"), user, 0, [name |-> name], NoQuery, 500, <<>>))
        ELSE /\ WithinBounds(db)
             /\ Store(db)
             /\ Reply(Response(OpName(k, "create"), user, 0, [name |-> name], NoQuery, 201, <<i>>))

\* GenericAPIView.get_object over BaseRecipeAttrViewSet.get_queryset
attr_get_object(db, k, user, pk) == pk \in filter_user(db, k, user)

\* PATCH /tags/<pk>/, /ingredients/<pk>/ : UpdateModelMixin.update
AttrUpdate(k, user, pk, name) ==
    IF ~attr_get_object(TheDB, k, user, pk)
    THEN /\ UNCHANGED <<recipes, tags, ingredients, recipe_tags, recipe_ingredients, seqs>>
         /\ Reply(Response(OpName(k, "update"), user, pk, [name |-> name], NoQuery, 404, <<>>))
    ELSE IF integrity_error(TheDB, k, user, name, pk)
    THEN /\ UNCHANGED <<recipes, tags, ingredients, recipe_tags, recipe_ingredients, seqs>>
         /\ Reply(Response(OpName(k, "update"), user, pk, [name |-> name], NoQuery, 500, <<>>))
    ELSE /\ Store([TheDB EXCEPT ![k][pk].name = name])
         /\ Reply(Response(OpName(k, "update"), user, pk, [name |-> name], NoQuery, 200, <<pk>>))

\* DELETE /tags/<pk>/, /ingredients/<pk>/ : DestroyModelMixin.destroy
AttrDestroy(k, user, pk) ==
    IF ~attr_get_object(TheDB, k, user, pk)
    THEN /\ UNCHANGED <<recipes, tags, ingredients, recipe_tags, recipe_ingredients, seqs>>
         /\ Reply(Response(OpName(k, "destroy"), user, pk, EmptyDict, NoQuery, 404, <<>>))
    ELSE /\ Store([TheDB EXCEPT ![k] = [i \in DOMAIN @ \ {pk} |-> @[i]],
                                ![through(k)] = {p \in @ : p[2] # pk}])
         /\ Reply(Response(OpName(k, "destroy"), user, pk, EmptyDict, NoQuery, 204, <<>>))

\* GET /tags/?assigned_only=.., /ingredients/?assigned_only=.. : ListModelMixin.list
AttrList(k, user, assigned_only) ==
    /\ UNCHANGED <<recipes, tags, ingredients, recipe_tags, recipe_ingredients, seqs>>
    /\ \E s \in attr_get_queryset(TheDB, k, user, assigned_only) :
          Reply(Response(OpName(k, "list"), user, 0, EmptyDict,
                           [tags |-> Absent, ingredients |-> Absent,
                            assigned_only |-> assigned_only], 200, s))

----------------------------------------------------------------------------
(* The requests the clients send.                                          *)

\* The scalar fields of test_create_recipe's payload.
CreateScalars ==
    [title |-> "Sample Recipe", time_minutes |-> 30, price |-> "10.00",
     description |-> "Sample recipe description", link |-> "http://example.com/recipe.pdf"]

\* The PATCH payloads of test_partial_update_recipe and
\* test_update_user_returns_error, and two fields of test_full_update_recipe's.
UpdateScalars ==
    {EmptyDict, [title |-> "Updated Recipe"], [time_minutes |-> 45, price |-> "15.00"]}
    \cup {[user |-> u] : u \in Users}

NestedOf(k) ==
    {EmptyDict} \cup {(k :> l) : l \in Lists(NamesOf(k))}

\* The nested parts of a payload: either kind alone with every list, and both
\* kinds together with the lists of at most one name.
Nested ==
    NestedOf("tags") \cup NestedOf("ingredients")
    \cup {[tags |-> t, ingredients |-> i] :
              t \in {l \in Lists(TagNames) : Len(l) <= 1},
              i \in {l \in Lists(IngredientNames) : Len(l) <= 1}}

UpdatePayloads ==
    Nested \cup UpdateScalars
    \cup {[user |-> "other", tags |-> <<"Indian">>]}

Tokens(k) == {ToString(n) : n \in AttrIds(k)}
\* Query parameters: absent, empty, one id, two different ids, and an entry
\* that is no integer, alone and after an id.
Params(k) ==
    {Absent, <<"">>} \cup {<<a>> : a \in Tokens(k)}
    \cup {l \in Tokens(k) \X Tokens(k) : l[1] # l[2]}
    \cup {<<"x">>, <<"1", "x">>}

\* The server's workers, each handling one request at a time.
Workers == 1..MaxWorkers
Idle == [pc |-> "idle"]

Init ==
    /\ recipes = EmptyDict
    /\ tags = EmptyDict
    /\ ingredients = EmptyDict
    /\ recipe_tags = {}
    /\ recipe_ingredients = {}
    /\ seqs = [recipes |-> 0, tags |-> 0, ingredients |-> 0]
    /\ last = [op |-> "none"]
    /\ inflight = [w \in Workers |-> Idle]
    /\ raced = {}

Next ==
    \/ Unobserved /\ \E u \in Users, n \in Nested : RecipeCreate(u, CreateScalars @@ n)
    \/ Unobserved /\ \E u \in Users, pk \in RecipeIds, data \in UpdatePayloads :
          RecipeUpdate(u, pk, data) /\ ScalarsLast(data)
    \/ Unobserved /\ \E u \in Users, pk \in RecipeIds : RecipeDestroy(u, pk)
    \/ Unobserved /\ \E u \in Users, pk \in RecipeIds : RecipeRetrieve(u, pk)
    \/ Unobserved /\ \E u \in Users, t \in Params("tags"), i \in Params("ingredients") :
          RecipeList(u, t, i)
    \/ Unobserved /\ \E k \in Kinds : \E u \in Users, n \in NamesOf(k) : AttrCreate(k, u, n)
    \/ Unobserved /\ \E k \in Kinds : \E u \in Users, pk \in AttrIds(k), n \in NamesOf(k) :
          AttrUpdate(k, u, pk, n)
    \/ Unobserved /\ \E k \in Kinds : \E u \in Users, pk \in AttrIds(k) : AttrDestroy(k, u, pk)
    \/ Unobserved /\ \E k \in Kinds : \E u \in Users, a \in {Absent, <<"1">>} :
          AttrList(k, u, a)

Spec == Init /\ [][Next]_vars

----------------------------------------------------------------------------
(* Requests in flight together.  No handler of recipe/views.py or           *)
(* recipe/serializers.py opens a transaction or takes a lock, so each       *)
(* statement of RecipeSerializer.create / update commits by itself and the  *)
(* statements of two workers interleave.  A worker serves one request.      *)

\* A look-up that never finds a row.
lookup_nothing(db, k, u, n) == {}

\* The rows Manager.get(user=u, name=n) matches on table k.
lookup(db, k, u, n) == {i \in DOMAIN db[k] : db[k][i].user = u /\ db[k][i].name = n}

\* The get_or_create + add of each name of a nested list, as statements to run.
Resolve(k, names) == [j \in DOMAIN names |-> [do |-> "resolve", k |-> k, name |-> names[j]]]
Detach(k) == <<[do |-> "clear", k |-> k, name |-> ""]>>
Save == <<[do |-> "save", k |-> "recipes", name |-> ""]>>

Busy(w) == inflight[w].pc # "idle"
\* Requests are given to the workers in the order they arrive.
Free(w) == ~Busy(w) /\ \A v \in Workers : v < w => Busy(v)
Step(w) == Head(inflight[w].todo)
At(w, pc, do) ==
    /\ Busy(w) /\ inflight[w].pc = pc
    /\ inflight[w].todo # <<>> /\ Step(w).do = do

\* POST /recipes/ up to Recipe.objects.create (serializers.py 54-56)
BeginCreate(w, user, data) ==
    LET vd == validated(data) @@ [user |-> user]
        tgs == pop(vd, "tags", Some(<<>>))
        ings == pop(vd, "ingredients", Some(<<>>))
        rest == without(vd, {"tags", "ingredients"})
        rid == seqs.recipes + 1
        db == [TheDB EXCEPT !.recipes = @ @@ (rid :> (rest @@ RecipeDefaults)),
                            !.seqs.recipes = rid]
    IN  /\ Free(w)
        /\ WithinBounds(db)
        /\ Store(db)
        /\ inflight' = [inflight EXCEPT ![w] =
               [pc |-> "ready", op |-> "recipe-create", user |-> user, rid |-> rid,
                todo |-> Resolve("tags", Value(tgs)) \o Resolve("ingredients", Value(ings)),
                instance |-> db.recipes[rid], rest |-> EmptyDict,
                obj |-> 0, stale |-> FALSE]]
        /\ UNCHANGED <<last, raced>>

\* PATCH /recipes/<pk>/ up to the pops of RecipeSerializer.update (serializers.py 63-64)
BeginUpdate(w, user, pk, data) ==
    LET vd == validated(data)
        tgs == pop(vd, "tags", Some(<<>>))
        ings == pop(vd, "ingredients", Some(<<>>))
    IN  /\ Free(w)
        /\ get_object(TheDB, user, pk)
        /\ inflight' = [inflight EXCEPT ![w] =
               [pc |-> "ready", op |-> "recipe-update", user |-> user, rid |-> pk,
                todo |-> (IF ings # None
                          THEN Detach("ingredients") \o Resolve("ingredients", Value(ings))
                          ELSE <<>>)
                         \o (IF tgs # None
                             THEN Detach("tags") \o Resolve("tags", Value(tgs))
                             ELSE <<>>)
                         \o Save,
                instance |-> recipes[pk], rest |-> without(vd, {"tags", "ingredients"}),
                obj |-> 0, stale |-> FALSE]]
        /\ UNCHANGED <<recipes, tags, ingredients, recipe_tags, recipe_ingredients, seqs,
                       last, raced>>

\* instance.<k>.clear() (serializers.py 67, 71)
DoClear(w) ==
    /\ At(w, "ready", "clear")
    /\ Store(clear(TheDB, Step(w).k, inflight[w].rid))
    /\ inflight' = [inflight EXCEPT ![w].todo = Tail(@)]
    /\ UNCHANGED <<last, raced>>

\* get_or_create, first half: self.get(user=auth_user, name=...)
DoGet(w) ==
    LET m == lookup(TheDB, Step(w).k, inflight[w].user, Step(w).name)
    IN  /\ At(w, "ready", "resolve")
        /\ inflight' = [inflight EXCEPT ![w] =
               CASE Cardinality(m) = 1 -> [@ EXCEPT !.pc = "have", !.obj = CHOOSE x \in m : TRUE]
                 [] m = {} -> [@ EXCEPT !.pc = "missing", !.stale = FALSE]
                 [] OTHER -> [@ EXCEPT !.pc = "raised"]]    \* MultipleObjectsReturned: 500
        /\ UNCHANGED <<recipes, tags, ingredients, recipe_tags, recipe_ingredients, seqs,
                       last, raced>>

\* get_or_create, second half: self.create(user=auth_user, name=...) after DoesNotExist;
\* an IntegrityError of the insert is answered by a second get.
DoInsert(w) ==
    LET k == Step(w).k
        u == inflight[w].user
        n == Step(w).name
        i == seqs[k] + 1
        db == [TheDB EXCEPT ![k] = @ @@ (i :> [user |-> u, name |-> n]), !.seqs[k] = i]
    IN  /\ At(w, "missing", "resolve")
        /\ IF integrity_error(TheDB, k, u, n, 0)
           THEN /\ inflight' = [inflight EXCEPT ![w].pc = "have",
                                   ![w].obj = CHOOSE x \in lookup(TheDB, k, u, n) : TRUE]
                /\ UNCHANGED <<recipes, tags, ingredients, recipe_tags, recipe_ingredients,
                               seqs, raced>>
           ELSE /\ WithinBounds(db)
                /\ Store(db)
                /\ inflight' = [v \in Workers |->
                       IF v = w THEN [inflight[w] EXCEPT !.pc = "have", !.obj = i]
                       ELSE IF /\ Busy(v) /\ inflight[v].pc = "missing"
                               /\ inflight[v].user = u
                               /\ Step(v).k = k /\ Step(v).name = n
                            THEN [inflight[v] EXCEPT !.stale = TRUE]
                            ELSE inflight[v]]
                /\ raced' = IF inflight[w].stale THEN raced \cup {<<k, i>>} ELSE raced
        /\ UNCHANGED last

\* recipe.<k>.add(obj) (serializers.py 43, 50)
DoAdd(w) ==
    /\ At(w, "have", "resolve")
    /\ Store(add(TheDB, Step(w).k, inflight[w].rid, inflight[w].obj))
    /\ inflight' = [inflight EXCEPT ![w].pc = "ready", ![w].todo = Tail(@)]
    /\ UNCHANGED <<last, raced>>

\* the setattr loop and instance.save() (serializers.py 74-77): the row as loaded, with
\* the payload's fields
DoSave(w) ==
    /\ At(w, "ready", "save")
    /\ Store([TheDB EXCEPT !.recipes[inflight[w].rid] =
                  inflight[w].rest @@ inflight[w].instance])
    /\ inflight' = [inflight EXCEPT ![w].todo = Tail(@)]
    /\ UNCHANGED <<last, raced>>

\* return recipe / return instance: the response is sent
DoReturn(w) ==
    /\ Busy(w) /\ inflight[w].pc = "ready" /\ inflight[w].todo = <<>>
    /\ inflight' = [inflight EXCEPT ![w].pc = "done"]
    /\ UNCHANGED <<recipes, tags, ingredients, recipe_tags, recipe_ingredients, seqs,
                   last, raced>>

\* The payloads of the requests in flight: no tag, one, two, and an ingredient.
InFlightPayloads ==
    {[tags |-> <<>>], [tags |-> <<"Indian">>], [tags |-> <<"Indian", "Italian">>],
     [ingredients |-> <<"Rice">>]}

NextConcurrent ==
    \/ \E w \in Workers, u \in Users, data \in InFlightPayloads : BeginCreate(w, u, data)
    \/ \E w \in Workers, u \in Users, pk \in RecipeIds, data \in InFlightPayloads :
          BeginUpdate(w, u, pk, data)
    \/ \E w \in Workers : DoClear(w)
    \/ \E w \in Workers : DoGet(w)
    \/ \E w \in Workers : DoInsert(w)
    \/ \E w \in Workers : DoAdd(w)
    \/ \E w \in Workers : DoSave(w)
    \/ \E w \in Workers : DoReturn(w)

SpecConcurrent == Init /\ [][NextConcurrent]_vars

----------------------------------------------------------------------------
(* Vocabulary of the properties.                                           *)

Observed(op) == last.op = op
Before == last.before

\* recipe.<k>.all() in store db
attached(db, k, rid) == {p[2] : p \in {q \in db[through(k)] : q[1] = rid}}
owned(db, table, user) == {i \in DOMAIN db[table] : db[table][i].user = user}
named(db, k, user, name) == {i \in owned(db, k, user) : db[k][i].name = name}

IsInjective(s) == \A a, b \in DOMAIN s : s[a] = s[b] => a = b
AllInts(q) == \A j \in DOMAIN q : int(q[j]) # None
Ints(q) == {Value(int(q[j])) : j \in DOMAIN q}

\* The user's lowest-id recipe among `among` that has record id of kind k attached.
LowestWith(db, k, among, id) ==
    LET has == {r \in among : id \in attached(db, k, r)}
    IN  IF has = {} THEN {} ELSE {r \in has : \A o \in has : r <= o}

----------------------------------------------------------------------------
(* C1: a recipe list request with a tags parameter of integer ids is        *)
(* answered without error, and holds for each requested tag id at most the  *)
(* requester's lowest-id recipe that has the tag: the result lists, once    *)
(* each, only such picks, and (no ingredients filter narrowing it further)  *)
(* exactly those picks; an id matching no recipe adds nothing.              *)
C1_OnePerTag ==
    (/\ Observed("recipe-list")
     /\ Truthy(last.query.tags) /\ AllInts(last.query.tags)
     /\ Truthy(last.query.ingredients) => AllInts(last.query.ingredients))
    => LET own == owned(TheDB, "recipes", last.user)
           picks == UNION {LowestWith(TheDB, "tags", own, t) : t \in Ints(last.query.tags)}
       IN  /\ last.status = 200
           /\ IsInjective(last.result)
           /\ Range(last.result) \subseteq picks
           /\ ~Truthy(last.query.ingredients) => Range(last.result) = picks

\* Two recipes of the requester carry the requested tag and only the lower id is returned.
C1_Witness ==
    /\ Observed("recipe-list")
    /\ last.query.tags = <<"1">> /\ last.query.ingredients = Absent
    /\ {1, 2} \subseteq owned(TheDB, "recipes", last.user)
    /\ 1 \in attached(TheDB, "tags", 1) /\ 1 \in attached(TheDB, "tags", 2)
    /\ last.result = <<1>>

----------------------------------------------------------------------------
(* C2: a recipe update whose payload has no tags key (no ingredients key)   *)
(* leaves the recipe with no tag (ingredient) attached, as an update with   *)
(* an empty list for the key does.                                          *)
C2_MissingKeyClears ==
    \A k \in Kinds :
        (/\ Observed("recipe-update") /\ last.status # 404
         /\ k \notin DOMAIN last.data)
        => attached(TheDB, k, last.pk) = {}

----------------------------------------------------------------------------
(* C3: after a successful recipe update that supplies a list L of tag       *)
(* (ingredient) names, the records attached to the recipe are exactly the   *)
(* requester's records of the names in L, one per name: a record attached   *)
(* before under a name not in L is detached, and an empty L leaves none.    *)
C3_UpdateReplaces ==
    \A k \in Kinds :
        (/\ Observed("recipe-update") /\ last.status = 200
         /\ k \in DOMAIN last.data)
        => LET L == last.data[k]
               now == attached(TheDB, k, last.pk)
           IN  /\ now = {i \in owned(TheDB, k, last.user) : TheDB[k][i].name \in Range(L)}
               /\ \A n \in Range(L) : Cardinality({i \in now : TheDB[k][i].name = n}) = 1
               /\ \A i \in attached(Before, k, last.pk) :
                      Before[k][i].name \notin Range(L) => i \notin now
               /\ L = <<>> => now = {}

\* An update naming one tag detached the tag of another name attached before.
C3_Witness ==
    /\ Observed("recipe-update") /\ last.status = 200
    /\ "tags" \in DOMAIN last.data /\ last.data.tags = <<"Italian">>
    /\ \E i \in attached(Before, "tags", last.pk) : Before.tags[i].name = "Indian"
    /\ \E i \in attached(TheDB, "tags", last.pk) : tags[i].name = "Italian"
    /\ Cardinality(attached(TheDB, "tags", last.pk)) = 1

----------------------------------------------------------------------------
(* C4: a recipe create call naming a tag of which the requester already     *)
(* owns one or several records succeeds, adds no Tag record of that name,   *)
(* and attaches a record that existed before the call.                      *)
C4_CreateReusesExisting ==
    (/\ Observed("recipe-create") /\ "tags" \in DOMAIN last.data)
    => \A n \in Range(last.data.tags) :
           named(Before, "tags", last.user, n) # {}
           => /\ last.status = 201
              /\ named(TheDB, "tags", last.user, n) = named(Before, "tags", last.user, n)
              /\ \E i \in named(Before, "tags", last.user, n) :
                     i \in attached(TheDB, "tags", seqs.recipes)

----------------------------------------------------------------------------
(* C5: a recipe create or update call naming a tag or ingredient of which   *)
(* the requester owns no record creates one record of that name owned by    *)
(* the requester, whoever else owns the name; no such call adds a record    *)
(* of another owner or attaches another owner's record.                     *)
ReconcilerCall ==
    \/ Observed("recipe-create")
    \/ Observed("recipe-update") /\ last.status # 404

TargetRecipe == IF Observed("recipe-create") THEN seqs.recipes ELSE last.pk

C5_CreatesUnderRequester ==
    ReconcilerCall
    => \A k \in Kinds :
           /\ k \in DOMAIN last.data
              => \A n \in Range(last.data[k]) :
                     named(Before, k, last.user, n) = {}
                     => \E i \in named(TheDB, k, last.user, n) :
                            /\ i \notin DOMAIN Before[k]
                            /\ named(TheDB, k, last.user, n) = {i}
           /\ \A i \in DOMAIN TheDB[k] \ DOMAIN Before[k] : TheDB[k][i].user = last.user
           /\ attached(TheDB, k, TargetRecipe) \subseteq owned(TheDB, k, last.user)

----------------------------------------------------------------------------
(* C6: a recipe create call whose tag list repeats a name succeeds, ends    *)
(* with exactly one Tag record of that name attached to the new recipe, and *)
(* adds at most one Tag record of that name.                                *)
C6_RepeatedNameOnce ==
    (/\ Observed("recipe-create") /\ "tags" \in DOMAIN last.data)
    => LET L == last.data.tags
       IN  \A a, b \in DOMAIN L :
               (a # b /\ L[a] = L[b])
               => /\ last.status = 201
                  /\ Cardinality({i \in attached(TheDB, "tags", seqs.recipes) :
                                      tags[i].name = L[a]}) = 1
                  /\ Cardinality(named(TheDB, "tags", last.user, L[a])
                                 \ DOMAIN Before.tags) <= 1

----------------------------------------------------------------------------
(* C7: whatever requests came before, a request returns and changes only    *)
(* records of the requester: every row of another owner, and what is        *)
(* attached to another owner's recipe, is as before; what it returns is the *)
(* requester's; and a detail, update or delete request addressed to another *)
(* owner's recipe is answered not-found and changes nothing.                *)
Tables == {"recipes", "tags", "ingredients"}

ResultTable ==
    CASE last.op \in {"recipe-create", "recipe-update", "recipe-destroy",
                      "recipe-retrieve", "recipe-list"} -> "recipes"
      [] last.op \in {"tag-create", "tag-update", "tag-destroy", "tag-list"} -> "tags"
      [] OTHER -> "ingredients"

C7_OwnershipIsolation ==
    ~Observed("none")
    => /\ \A t \in Tables : \A i \in DOMAIN Before[t] :
              Before[t][i].user # last.user
              => i \in DOMAIN TheDB[t] /\ TheDB[t][i] = Before[t][i]
       /\ \A k \in Kinds : \A r \in DOMAIN Before.recipes :
              Before.recipes[r].user # last.user
              => attached(TheDB, k, r) = attached(Before, k, r)
       /\ Range(last.result) \subseteq owned(TheDB, ResultTable, last.user)
       /\ (/\ last.op \in {"recipe-retrieve", "recipe-update", "recipe-destroy"}
           /\ last.pk \in DOMAIN Before.recipes
           /\ Before.recipes[last.pk].user # last.user)
          => last.status = 404 /\ last.result = <<>> /\ TheDB = Before

\* A delete addressed to another owner's recipe, which carries a tag, was answered 404.
C7_Witness ==
    /\ Observed("recipe-destroy") /\ last.status = 404
    /\ last.pk \in DOMAIN recipes /\ recipes[last.pk].user # last.user
    /\ attached(TheDB, "tags", last.pk) # {}
    /\ owned(TheDB, "recipes", last.user) # {}

----------------------------------------------------------------------------
(* C8: in every reachable state every tag and every ingredient attached to  *)
(* a recipe is a row of its table with the owner of the recipe.             *)
C8_AttachedSameOwner ==
    \A k \in Kinds : \A p \in TheDB[through(k)] :
        /\ p[1] \in DOMAIN recipes
        /\ p[2] \in DOMAIN TheDB[k]
        /\ TheDB[k][p[2]].user = recipes[p[1]].user

\* A recipe update attached the requester's own tag of a name another owner also holds.
C8_Witness ==
    /\ Observed("recipe-update") /\ last.status = 200
    /\ \E i \in attached(TheDB, "tags", last.pk) :
           /\ i \notin DOMAIN Before.tags
           /\ \E j \in DOMAIN tags : tags[j].user # last.user /\ tags[j].name = tags[i].name

----------------------------------------------------------------------------
(* C9: a tag (ingredient) list request with assigned_only=1 returns, once   *)
(* each, exactly the requester's tags (ingredients) attached to at least    *)
(* one recipe.                                                              *)
C9_AssignedOnly ==
    \A k \in Kinds :
        (/\ Observed(OpName(k, "list")) /\ last.query.assigned_only = <<"1">>)
        => /\ Range(last.result) =
                  {i \in owned(TheDB, k, last.user) :
                       \E r \in DOMAIN recipes : i \in attached(TheDB, k, r)}
           /\ IsInjective(last.result)

----------------------------------------------------------------------------
(* C10: no request changes the owner of a recipe; an update whose payload   *)
(* names a user is answered, and leaves the store, as the same update       *)
(* without that key, and with nothing else in the payload it succeeds.      *)
C10_OwnerImmutable ==
    ~Observed("none")
    => /\ \A r \in DOMAIN Before.recipes \cap DOMAIN recipes :
              recipes[r].user = Before.recipes[r].user
       /\ (/\ Observed("recipe-update") /\ last.status # 404
           /\ "user" \in DOMAIN last.data)
          => LET r == update(Before, last.user, last.pk,
                             validated(without(last.data, {"user"})))
             IN  /\ (last.status = 200) = ~r.raised
                 /\ TheDB = IF r.raised THEN AfterRaise(Before, r.db) ELSE r.db
                 /\ DOMAIN last.data = {"user"} => last.status = 200

\* An update naming the other user as owner succeeded and the owner is the requester.
C10_Witness ==
    /\ Observed("recipe-update") /\ last.status = 200
    /\ last.data = [user |-> "other"] /\ last.user = "user"
    /\ recipes[last.pk].user = "user"

----------------------------------------------------------------------------
(* C11: no recipe create or update call deletes a Tag or Ingredient        *)
(* record: every record of before the call is there after it, as it was,   *)
(* and a record an update detached from the recipe is only detached.       *)
C11_DetachKeepsRecords ==
    (Observed("recipe-create") \/ Observed("recipe-update"))
    => \A k \in Kinds :
           /\ DOMAIN Before[k] \subseteq DOMAIN TheDB[k]
           /\ \A i \in DOMAIN Before[k] : TheDB[k][i] = Before[k][i]

\* An update with an empty tag list detached a tag, and the Tag record is still there.
C11_Witness ==
    /\ Observed("recipe-update") /\ last.status = 200
    /\ "tags" \in DOMAIN last.data /\ last.data.tags = <<>>
    /\ \E i \in attached(Before, "tags", last.pk) :
           /\ i \notin attached(TheDB, "tags", last.pk)
           /\ i \in DOMAIN tags /\ tags[i] = Before.tags[i]

----------------------------------------------------------------------------
(* C12: a recipe list request with no tags and no ingredients parameter is *)
(* answered 200 with exactly the requester's recipes, each once, in        *)
(* descending id, and with no recipe of another owner.                     *)
C12_ListAllOwnDescending ==
    (/\ Observed("recipe-list")
     /\ last.query.tags = Absent /\ last.query.ingredients = Absent)
    => /\ last.status = 200
       /\ Range(last.result) = owned(TheDB, "recipes", last.user)
       /\ IsInjective(last.result)
       /\ \A a, b \in DOMAIN last.result : a < b => last.result[a] > last.result[b]
       /\ \A j \in DOMAIN last.result : recipes[last.result[j]].user = last.user

\* The requester owns two recipes and the list holds the later one first.
C12_Witness ==
    /\ Observed("recipe-list")
    /\ last.query.tags = Absent /\ last.query.ingredients = Absent
    /\ last.result = <<2, 1>>

----------------------------------------------------------------------------
(* C13: a recipe list request whose tags or ingredients parameter holds an *)
(* entry that is no integer is answered with a validation error (400, not  *)
(* an unhandled failure), returns no recipe and leaves the store as it was. *)
NonIntegerFilter ==
    \/ Truthy(last.query.tags) /\ ~AllInts(last.query.tags)
    \/ Truthy(last.query.ingredients) /\ ~AllInts(last.query.ingredients)

C13_NonIntegerRejected ==
    (Observed("recipe-list") /\ NonIntegerFilter)
    => /\ last.status = 400
       /\ last.result = <<>>
       /\ TheDB = Before

----------------------------------------------------------------------------
(* C14: a successful update whose payload holds scalar fields only sets    *)
(* the recipe's fields of the payload to the payload's values and leaves   *)
(* its other scalar fields and its owner as they were, and leaves every    *)
(* other recipe, with what is attached to it, as it was.                   *)
C14_PartialUpdateFrame ==
    (/\ Observed("recipe-update") /\ last.status = 200
     /\ DOMAIN last.data # {} /\ DOMAIN last.data \subseteq ScalarFields)
    => /\ last.pk \in DOMAIN recipes
       /\ \A f \in DOMAIN last.data : recipes[last.pk][f] = last.data[f]
       /\ \A f \in (ScalarFields \cup {"user"}) \ DOMAIN last.data :
              recipes[last.pk][f] = Before.recipes[last.pk][f]
       /\ DOMAIN recipes[last.pk] = DOMAIN Before.recipes[last.pk]
       /\ \A r \in DOMAIN Before.recipes \ {last.pk} :
              /\ r \in DOMAIN recipes /\ recipes[r] = Before.recipes[r]
              /\ \A k \in Kinds : attached(TheDB, k, r) = attached(Before, k, r)
       /\ DOMAIN recipes = DOMAIN Before.recipes

\* A title-only update of one of two recipes changed the title and kept the link.
C14_Witness ==
    /\ Observed("recipe-update") /\ last.status = 200
    /\ last.data = [title |-> "Updated Recipe"]
    /\ recipes[last.pk].title = "Updated Recipe"
    /\ Before.recipes[last.pk].title = "Sample Recipe"
    /\ recipes[last.pk].link = "http://example.com/recipe.pdf"
    /\ DOMAIN recipes = {1, 2}
    /\ attached(TheDB, "tags", 3 - last.pk) # {}

----------------------------------------------------------------------------
(* C15: a recipe list request with both a tags and an ingredients          *)
(* parameter narrows by ingredient within the recipes picked for the tags: *)
(* the result is, once each, for each requested ingredient id the          *)
(* lowest-id recipe among the tag-picked ones that has the ingredient, so  *)
(* each returned recipe was picked for a requested tag and has a requested *)
(* ingredient, and nothing is returned when the tags picked nothing.       *)
C15_IngredientsWithinTagPicks ==
    (/\ Observed("recipe-list")
     /\ Truthy(last.query.tags) /\ AllInts(last.query.tags)
     /\ Truthy(last.query.ingredients) /\ AllInts(last.query.ingredients))
    => LET own == owned(TheDB, "recipes", last.user)
           tag_picks == UNION {LowestWith(TheDB, "tags", own, t) :
                                   t \in Ints(last.query.tags)}
           picks == UNION {LowestWith(TheDB, "ingredients", tag_picks, g) :
                               g \in Ints(last.query.ingredients)}
       IN  /\ last.status = 200
           /\ Range(last.result) = picks
           /\ IsInjective(last.result)
           /\ \A j \in DOMAIN last.result :
                  /\ last.result[j] \in tag_picks
                  /\ \E g \in Ints(last.query.ingredients) :
                         g \in attached(TheDB, "ingredients", last.result[j])
           /\ tag_picks = {} => last.result = <<>>

\* Recipe 1 has the ingredient but not the tag, recipe 2 has both: recipe 2 is returned.
C15_Witness ==
    /\ Observed("recipe-list")
    /\ last.query.tags = <<"1">> /\ last.query.ingredients = <<"1">>
    /\ {1, 2} \subseteq owned(TheDB, "recipes", last.user)
    /\ 1 \in attached(TheDB, "ingredients", 1) /\ 1 \notin attached(TheDB, "tags", 1)
    /\ 1 \in attached(TheDB, "ingredients", 2) /\ 1 \in attached(TheDB, "tags", 2)
    /\ last.result = <<2>>

----------------------------------------------------------------------------
(* C16: with requests in flight together the look-up and the create of the *)
(* reconciler are two steps, and a second record of an (owner, name) is    *)
(* added only by a request whose look-up another request's insert of the   *)
(* same (owner, name) overtook; requests run one at a time never add a     *)
(* second record of an (owner, name) that has one.                         *)
C16_SecondRecordOnlyByRace ==
    \A k \in Kinds : \A i, j \in DOMAIN TheDB[k] :
        (i < j /\ TheDB[k][i] = TheDB[k][j]) => <<k, j>> \in raced

\* Two requests of one user, both answered, left two Tag rows of one name.
C16_Witness ==
    /\ \A w \in Workers : inflight[w].pc = "done" /\ inflight[w].user = "user"
    /\ \E i, j \in DOMAIN tags :
           /\ i < j /\ tags[i] = tags[j] /\ tags[i].user = "user"
           /\ <<"tags", j>> \in raced

----------------------------------------------------------------------------
(* C17: a recipe update that does not complete successfully leaves the     *)
(* recipe's attached tags and ingredients as they were before the call:    *)
(* a clearing is never left in effect without the new set attached.        *)
C17_UpdateAllOrNothing ==
    (/\ Observed("recipe-update") /\ last.status \notin {200, 404})
    => \A k \in Kinds :
           attached(TheDB, k, last.pk) = attached(Before, k, last.pk)

====
